---- MODULE Spec2Model ----
(***************************************************************************)
(* Local-Captcha: the image synthesis pipeline of captcha.py (captcha) and *)
(* its transport wrapper web_api.py (generate_captcha).                    *)
(*                                                                         *)
(* The four knobs (distortion, noise, grid_strength, rotation) are floats  *)
(* in the program.  Here a knob value v is the integer v * Unit, so knobs  *)
(* are counted in tenths and every formula of the program is evaluated in  *)
(* integer arithmetic on numerators.  Where the rounding of a double moves *)
(* a truncated result off its exact value (a cell edge, min_alpha) the     *)
(* definition follows the double.  An image is followed through the        *)
(* pipeline at one pixel, pix, chosen when the canvas is created.          *)
(***************************************************************************)
EXTENDS Integers, Sequences, FiniteSets, TLC

VARIABLES
    pc,             \* position of the call inside captcha(); "idle" before, "done" after
    args,           \* the arguments of the call, as passed
    distortion,     \* locals of captcha(): the knobs after lines 55-58
    noise,
    grid_strength,
    rotation,
    w, h,           \* canvas size, line 62
    x,              \* glyph cursor, lines 78 and 92
    idx,            \* number of characters of text the loop of line 79 has taken
    pasted,         \* characters pasted on text_layer, in paste order
    stopped,        \* the loop of line 79 left through the break of line 90
    pix,            \* the pixel followed through the pipeline
    ink,            \* alpha of text_layer at pix
    mesh,           \* the boxes of the list built at lines 109-131, in order
    warp,           \* which transform lines 134-142 applied
    noise_src,      \* where noise_img came from, lines 150-158
    noise_px,       \* noise_img at pix
    grid_px,        \* grid at pix
    alpha,          \* alpha at pix, lines 180-193
    out_a,          \* alpha of out at pix, lines 197-215
    buffers,        \* number of image buffers created so far by the call
    stages,         \* the stages the call has run, in order
    result,         \* what the call gave its caller
    reads,          \* every knob value a stage has read: <<stage, knob, value>>
    request,        \* generate_captcha: the numbers of the request body
    response,       \* generate_captcha: what it returned
    coreCalls,      \* generate_captcha: calls of captcha() made for the request
    mono,           \* two evaluations of the noise-scaled quantities
    rng,            \* state of the generator behind the module random
    calls           \* concurrent calls drawing from it: their position and draws

vars == <<pc, args, distortion, noise, grid_strength, rotation, w, h, x, idx,
          pasted, stopped, pix, ink, mesh, warp, noise_src, noise_px, grid_px, alpha,
          out_a, buffers, stages, result, reads, request, response, coreCalls,
          mono, rng, calls>>

coreVars == <<pc, args, distortion, noise, grid_strength, rotation, w, h, x, idx,
              pasted, stopped, pix, ink, mesh, warp, noise_src, noise_px, grid_px, alpha,
              out_a, buffers, stages, result, reads>>

apiVars == <<request, response, coreCalls>>

otherVars == <<mono, rng, calls>>

(***************************************************************************)
(* Bounds of the model.                                                    *)
(***************************************************************************)
MaxNumbers == 6     \* longest numbers list of a request
MaxText == 3        \* longest text of a direct call
MaxNx == 49         \* largest mesh_steps[0]
MaxNy == 2          \* largest mesh_steps[1]
MaxSmall == 3       \* largest side of the small canvases
MaxLines == 1       \* overlay lines a concurrent call draws
MaxDots == 1        \* overlay dots a concurrent call draws

\* Knob values are counted in tenths: the knob value v is the integer v * Unit.
Unit == 2 * 5

Min(a, b) == IF a < b THEN a ELSE b
Max(a, b) == IF a > b THEN a ELSE b

\* The values tried for a knob argument: below 0, inside [0,1], above 1.
KnobVals == {-5, 3, 15}

\* no result yet, no response yet
NoValue == "none"

(***************************************************************************)
(* Parameter Normalizer, lines 53-62.                                      *)
(***************************************************************************)
clamp01_no_lower(v) == Min(Unit, v)

clamp01(v) == Max(0, Min(Unit, v))

\* width = max(220, int(len(text) * font_size * 0.6) + 60), line 61
DefaultWidth(text, font_size) == Max(220, (Len(text) * font_size * 6) \div 10 + 60)

(***************************************************************************)
(* Glyph Renderer, lines 78-92.                                            *)
(***************************************************************************)
\* ch_w = int(font_size * 1.05) + 8, line 80
GlyphWidth(font_size) == (font_size * 105) \div 100 + 8

\* int(font_size * 0.68), line 92
Advance(font_size) == (font_size * 68) \div 100

\* random.randint(-1, 3), line 92
Jitter == -1 .. 3

\* ch_img.rotate(angle, expand=1), line 88: with |angle| <= 12 * rotation degrees
\* the expanded image is between ch_w and ch_w + hh * sin(12 deg) wide, and
\* exactly ch_w wide at angle 0.
RotatedWidths(font_size, hh, rot) ==
    IF rot = 0 THEN {GlyphWidth(font_size)}
    ELSE {GlyphWidth(font_size) + e : e \in 0 .. ((Max(hh, 0) * 208) \div 1000 + 1)}

FitsOffByOne(cursor, gw, ww) == ~(cursor + gw > ww - 19)

\* the glyph fits: not (x + ch_img.width > w - 20), line 89
Fits(cursor, gw, ww) == ~(cursor + gw > ww - 20)

\* text_layer alpha at a pixel under a pasted glyph: around the threshold of line 187
InkLevels == {16, 17, 255}

(***************************************************************************)
(* Mesh Distorter, lines 98-142.                                           *)
(*                                                                         *)
(* cell_w = w / nx is a double, and a cell edge is int(i * cell_w).  The   *)
(* quotient is rounded to 53 bits, so when i * w / nx is an integer T the  *)
(* double product can fall just below T and int() then gives T - 1.        *)
(* CellEdge computes the edge as IEEE-754 double arithmetic does, from the *)
(* remainder of the rounded division; when i * w / nx is no integer the    *)
(* rounding error is far too small to move the floor.                      *)
(***************************************************************************)
RECURSIVE FLog2(_, _)
\* the a with 2^a <= num / den < 2^(a+1), for num, den > 0
FLog2(num, den) ==
    IF num >= 2 * den THEN 1 + FLog2(num, 2 * den)
    ELSE IF num < den THEN FLog2(2 * num, den) - 1
    ELSE 0

RECURSIVE Pow2Mod(_, _)
\* 2^k mod n
Pow2Mod(k, n) == IF k = 0 THEN 1 % n ELSE (2 * Pow2Mod(k - 1, n)) % n

RECURSIVE Pow2(_)
Pow2(e) == IF e = 0 THEN 1 ELSE 2 * Pow2(e - 1)

RECURSIVE IsPow2(_)
IsPow2(t) == IF t = 1 THEN TRUE ELSE IF t % 2 = 1 THEN FALSE ELSE IsPow2(t \div 2)

\* i * w / n in exact arithmetic, floored
ExactEdge(i, ww, n) == (i * ww) \div n

\* whether the double i * (w / n) lies below the integer i * w / n
EdgeFallsShort(i, ww, n) ==
    /\ i > 0
    /\ ww > 0
    /\ (i * ww) % n = 0
    /\ LET a == FLog2(ww, n)
           r == (ww * Pow2Mod(52 - a, n)) % n       \* remainder of the rounded division
           t == (i * ww) \div n
           e == FLog2(t, 1) - a
       IN  /\ r > 0
           /\ 2 * r < n                             \* the quotient was rounded down
           /\ (IF IsPow2(t) THEN 4 ELSE 2) * i * r > n * Pow2(e)

\* int(i * cell_w), lines 111-114
CellEdge(i, ww, n) ==
    IF EdgeFallsShort(i, ww, n) THEN ExactEdge(i, ww, n) - 1 ELSE ExactEdge(i, ww, n)

\* nx = max(1, int(nx)), line 99
Steps(n) == Max(1, n)

\* box = (x0, y0, x1, y1), lines 111-124
Box(i, j, ww, hh, nx, ny) ==
    [x0 |-> CellEdge(i, ww, nx), y0 |-> CellEdge(j, hh, ny),
     x1 |-> CellEdge(i + 1, ww, nx), y1 |-> CellEdge(j + 1, hh, ny)]

\* the loops of lines 109-110: i outer, j inner; cell number c is (i, j) = (c \div ny, c % ny)
BuildMesh(ww, hh, nx, ny) ==
    [c \in 1 .. (nx * ny) |-> Box((c - 1) \div ny, (c - 1) % ny, ww, hh, nx, ny)]

\* a pixel lies in a box: x0 <= px < x1 and y0 <= py < y1
InBox(b, px, py) == b.x0 <= px /\ px < b.x1 /\ b.y0 <= py /\ py < b.y1

\* distortion > 0.001, line 134
Distorts(d) == d * 1000 > Unit

(***************************************************************************)
(* Noise/Grid Generator, lines 149-168.                                    *)
(***************************************************************************)
\* noise_amp = int(8 + 120 * noise), line 149
NoiseAmpInverted(n) == 8 + (120 * (Unit - n)) \div Unit

NoiseAmp(n) == 8 + (120 * n) \div Unit

\* values tried for a pixel of noise_img
NoiseLevels == {0, 100, 128, 255}

\* int(128 + (127 * noise) * (random.random() - 0.5)), line 158
FallbackNoise(n) ==
    {v \in NoiseLevels : /\ 1280 * Unit - 635 * n <= 10 * Unit * v
                         /\ 10 * Unit * v <= 1280 * Unit + 635 * n}

\* line_w = max(1, int(max(1, grid_spacing * 0.06) * (0.3 + grid_strength))), line 163
LineW(spacing, g) ==
    Max(1, (Max(100, 6 * spacing) * (3 * Unit + 10 * g)) \div (1000 * Unit))

\* line_opacity = int(48 + 160 * grid_strength), line 164
LineOpacity(g) == 48 + (160 * g) \div Unit

\* range(0, n, spacing), lines 165 and 167, for spacing /= 0
Range(n, spacing) ==
    IF spacing < 0 THEN {} ELSE {k \in 0 .. (n - 1) : k % spacing = 0}

\* pix lies in one of the rectangles of lines 166 and 168 (corners inclusive)
OnBand(px, py, ww, hh, spacing, g) ==
    LET lw == LineW(spacing, g)
    IN  \/ \E gx \in Range(ww, spacing) : gx - lw <= px /\ px <= gx + lw /\ py <= hh
        \/ \E gy \in Range(hh, spacing) : gy - lw <= py /\ py <= gy + lw /\ px <= ww

(***************************************************************************)
(* Alpha Blender, lines 172-193.                                           *)
(***************************************************************************)
\* noise_scaled: int(p * noise * 0.85), line 172
NoiseScaled(p, n) == (p * n * 85) \div (Unit * 100)

\* ImageChops.add, line 173: clipped at 255
ChopsAdd(a, b) == Min(255, a + b)

\* base_sub = int(10 + 140 * (0.2 * noise + 0.8 * grid_strength)), line 176
BaseSub(n, g) == 10 + (28 * n + 112 * g) \div Unit

\* alpha_map: int(min(255, base_sub + p * 0.6)), line 177
AlphaMap(p, n, g) == Min(255, BaseSub(n, g) + (6 * p) \div 10)

\* ImageChops.subtract, line 181: clipped at 0
ChopsSubtract(a, b) == Max(0, a - b)

\* forced: 230 if p > 16 else 0, line 187
ForcedLow(p) == IF p > 16 THEN 200 ELSE 0

Forced(p) == IF p > 16 THEN 230 ELSE 0

\* ImageChops.lighter, line 188
Lighter(a, b) == Max(a, b)

\* The knob pairs (in tenths) at which the double 150 - 60 * (noise * 0.8 +
\* grid_strength * 0.2) comes out below its exact value, an integer: at noise 0.8,
\* grid_strength 0.3 it is 107.99999999999999 where the exact value is 108.
MinAlphaFloatLow == {<<8, 3>>}

\* 150 - 60 * (0.8 * noise + 0.2 * grid_strength), times 10 * Unit, in exact arithmetic
MinAlphaExact10(n, g) == 1500 * Unit - 480 * n - 120 * g

\* min_alpha = max(100, min(255, int(150 - 60 * (noise * 0.8 + grid_strength * 0.2)))),
\* lines 191-192
MinAlpha(n, g) ==
    LET t == MinAlphaExact10(n, g) \div (10 * Unit)
    IN  Max(100, Min(255, IF <<n, g>> \in MinAlphaFloatLow THEN t - 1 ELSE t))

\* alpha.point(lambda p: max(min_alpha, p)), line 193
FloorAlphaMissing(a, n, g) == a

FloorAlpha(a, n, g) == Max(MinAlpha(n, g), a)

(***************************************************************************)
(* Overlay Artist and Finisher, lines 200-215.                             *)
(***************************************************************************)
\* line_count = int(2 + 12 * noise), line 202
LineCount(n) == 2 + (12 * n) \div Unit

\* int(20 + 140 * noise), line 206
LineAlpha(n) == 20 + (140 * n) \div Unit

\* dot_count = int(w * h * 0.0006 * (1 + noise * 2)), line 207; on the canvases used
\* here the product is never an integer, where a double could fall short of it
DotCount(ww, hh, n) == (ww * hh * 6 * (Unit + 2 * n)) \div (10000 * Unit)

\* int(10 + 140 * noise), line 210
DotAlpha(n) == 10 + (140 * n) \div Unit

\* alpha of overlay at a pixel: 0, or the fill of a line or of a dot drawn over it
OverlayAlphas(ww, hh, n) ==
    {0} \cup (IF LineCount(n) > 0 THEN {LineAlpha(n)} ELSE {})
        \cup (IF DotCount(ww, hh, n) > 0 THEN {DotAlpha(n)} ELSE {})

\* Pillow's division by 255 of alpha_composite: ((a >> 8) + a) >> 8
ShiftForDiv255(a) == ((a \div 256) + a) \div 256

\* Image.alpha_composite(out, overlay), line 211: alpha of the result at a pixel with
\* alpha dst in out and src in overlay
CompositeAlpha(dst, src) ==
    IF src = 0 THEN dst
    ELSE ShiftForDiv255(src * 255 + dst * (255 - src) + 128)

(***************************************************************************)
(* State before a call.                                                    *)
(***************************************************************************)
\* the defaults of captcha(), lines 35-47
DefaultArgs(text) ==
    [text |-> text, width |-> <<>>, height |-> 50, font_path |-> "none",
     font_size |-> 30, mesh_steps |-> <<1, 11>>, grid_spacing |-> 16,
     distortion |-> 0, noise |-> Unit, grid_strength |-> 0, rotation |-> Unit,
     protect_text |-> TRUE]

\* the pixels followed: on a grid band, off the bands left of the text, under the text
Pixels == {[x |-> 0, y |-> 0], [x |-> 8, y |-> 8], [x |-> 30, y |-> 8]}

CoreIdle ==
    /\ pc = "idle"
    /\ args = DefaultArgs(<<>>)
    /\ distortion = 0 /\ noise = 0 /\ grid_strength = 0 /\ rotation = 0
    /\ w = 0 /\ h = 0 /\ x = 0 /\ idx = 0
    /\ pasted = <<>> /\ stopped = FALSE
    /\ pix = [x |-> 0, y |-> 0] /\ ink = 0
    /\ mesh = <<>> /\ warp = NoValue /\ noise_src = NoValue
    /\ noise_px = 0 /\ grid_px = 0 /\ alpha = 0 /\ out_a = 0
    /\ buffers = 0 /\ stages = <<>> /\ result = NoValue /\ reads = {}

ApiIdle == request = <<>> /\ response = NoValue /\ coreCalls = 0

OtherIdle == mono = <<>> /\ rng = 0 /\ calls = <<>>

\* entry into captcha() with these arguments
Enter(a) ==
    /\ pc = "idle"
    /\ pc' = "normalize"
    /\ args' = a
    /\ UNCHANGED <<distortion, noise, grid_strength, rotation, w, h, x, idx, pasted,
                   stopped, pix, ink, mesh, warp, noise_src, noise_px, grid_px,
                   alpha, out_a, buffers, stages, result, reads>>

\* a stage runs to its end and the next one is reached
Step(stage, next) ==
    /\ pc = stage
    /\ pc' = next
    /\ stages' = Append(stages, stage)

\* an exception leaves captcha()
Raise(stage, exc) ==
    /\ pc = stage
    /\ pc' = "done"
    /\ stages' = Append(stages, stage)
    /\ result' = exc

Read(stage, knob, v) == {<<stage, knob, v>>}

(***************************************************************************)
(* The stages of captcha(), lines 53-217.                                  *)
(***************************************************************************)
\* lines 53-62
Normalize ==
    /\ Step("normalize", "base")
    /\ distortion' = clamp01(args.distortion)
    /\ noise' = clamp01(args.noise)
    /\ grid_strength' = clamp01(args.grid_strength)
    /\ rotation' = clamp01(args.rotation)
    /\ w' = IF args.width = <<>> THEN DefaultWidth(args.text, args.font_size)
            ELSE args.width[1]
    /\ h' = args.height
    /\ UNCHANGED <<args, x, idx, pasted, stopped, pix, ink, mesh, warp, noise_src,
                   noise_px, grid_px, alpha, out_a, buffers, result, reads>>
    /\ UNCHANGED <<apiVars, otherVars>>

\* line 65: the first buffer of the call; Image.new raises ValueError on a negative size
AllocBase ==
    /\ pc = "base"
    /\ IF w < 0 \/ h < 0
       THEN /\ Raise("base", "ValueError")
            /\ UNCHANGED <<pix, buffers>>
       ELSE /\ Step("base", "font")
            /\ buffers' = buffers + 1
            /\ pix' \in {p \in Pixels : p.x < w /\ p.y < h}
            /\ UNCHANGED result
    /\ UNCHANGED <<args, distortion, noise, grid_strength, rotation, w, h, x, idx,
                   pasted, stopped, ink, mesh, warp, noise_src, noise_px, grid_px,
                   alpha, out_a, reads>>
    /\ UNCHANGED <<apiVars, otherVars>>

\* lines 68-74 with _load_font, lines 22-33: every failure to load is caught and the
\* chain ends in ImageFont.load_default()
LoadFont ==
    /\ Step("font", "text_layer")
    /\ UNCHANGED <<args, distortion, noise, grid_strength, rotation, w, h, x, idx,
                   pasted, stopped, pix, ink, mesh, warp, noise_src, noise_px,
                   grid_px, alpha, out_a, buffers, result, reads>>
    /\ UNCHANGED <<apiVars, otherVars>>

\* lines 77-78
NewTextLayer ==
    /\ Step("text_layer", "glyph")
    /\ buffers' = buffers + 1
    /\ x' = 20
    /\ idx' = 0
    /\ pasted' = <<>>
    /\ stopped' = FALSE
    /\ ink' = 0
    /\ UNCHANGED <<args, distortion, noise, grid_strength, rotation, w, h, pix, mesh,
                   warp, noise_src, noise_px, grid_px, alpha, out_a, result, reads>>
    /\ UNCHANGED <<apiVars, otherVars>>

\* lines 79-92: one turn of the loop over text, or its end
RenderChar ==
    /\ pc = "glyph"
    /\ IF idx = Len(args.text)
       THEN /\ Step("glyph", "compose")
            /\ UNCHANGED <<x, idx, pasted, stopped, ink, buffers, reads>>
       ELSE /\ reads' = reads \cup Read("glyph", "rotation", rotation)
            /\ buffers' = buffers + 2
            /\ \E gw \in RotatedWidths(args.font_size, h, rotation) :
                 IF Fits(x, gw, w)
                 THEN /\ pasted' = Append(pasted, args.text[idx + 1])
                      /\ idx' = idx + 1
                      /\ ink' \in IF x <= pix.x /\ pix.x < x + gw
                                  THEN {ink} \cup InkLevels ELSE {ink}
                      /\ \E j \in Jitter : x' = x + Advance(args.font_size) + j
                      /\ UNCHANGED <<pc, stages, stopped>>
                 ELSE /\ Step("glyph", "compose")
                      /\ stopped' = TRUE
                      /\ UNCHANGED <<x, idx, pasted, ink>>
    /\ UNCHANGED <<args, distortion, noise, grid_strength, rotation, w, h, pix, mesh,
                   warp, noise_src, noise_px, grid_px, alpha, out_a, result>>
    /\ UNCHANGED <<apiVars, otherVars>>

\* line 95
Compose ==
    /\ Step("compose", "mesh")
    /\ buffers' = buffers + 1
    /\ UNCHANGED <<args, distortion, noise, grid_strength, rotation, w, h, x, idx,
                   pasted, stopped, pix, ink, mesh, warp, noise_src, noise_px,
                   grid_px, alpha, out_a, result, reads>>
    /\ UNCHANGED <<apiVars, otherVars>>

\* lines 98-131: the corner offsets of lines 116-123 move the quad of a cell, never
\* its box
MeshCells ==
    /\ Step("mesh", "warp")
    /\ mesh' = BuildMesh(w, h, Steps(args.mesh_steps[1]), Steps(args.mesh_steps[2]))
    /\ reads' = reads \cup Read("mesh", "distortion", distortion)
    /\ UNCHANGED <<args, distortion, noise, grid_strength, rotation, w, h, x, idx,
                   pasted, stopped, pix, ink, warp, noise_src, noise_px, grid_px,
                   alpha, out_a, buffers, result>>
    /\ UNCHANGED <<apiVars, otherVars>>

\* lines 134-142: the build may lack Image.MESH, and transform may raise
Warp ==
    /\ Step("warp", "blur")
    /\ buffers' = buffers + 1
    /\ \E hasMesh \in BOOLEAN, raises \in BOOLEAN :
         IF Distorts(distortion) /\ hasMesh
         THEN /\ warp' = IF raises THEN "fallback_rotation" ELSE "mesh"
              /\ reads' = reads \cup Read("warp", "distortion", distortion)
         ELSE /\ warp' = "small_rotation"
              /\ reads' = reads \cup Read("warp", "distortion", distortion)
                                \cup Read("warp", "rotation", rotation)
    /\ UNCHANGED <<args, distortion, noise, grid_strength, rotation, w, h, x, idx,
                   pasted, stopped, pix, ink, mesh, noise_src, noise_px, grid_px,
                   alpha, out_a, result>>
    /\ UNCHANGED <<apiVars, otherVars>>

\* line 145
Blur ==
    /\ Step("blur", "noise")
    /\ buffers' = buffers + 1
    /\ reads' = reads \cup Read("blur", "distortion", distortion)
    /\ UNCHANGED <<args, distortion, noise, grid_strength, rotation, w, h, x, idx,
                   pasted, stopped, pix, ink, mesh, warp, noise_src, noise_px,
                   grid_px, alpha, out_a, result>>
    /\ UNCHANGED <<apiVars, otherVars>>

\* lines 149-158: Image.effect_noise may raise
Noise ==
    /\ Step("noise", "grid")
    /\ buffers' = buffers + 1
    /\ reads' = reads \cup Read("noise", "noise", noise)
    /\ \E raises \in BOOLEAN :
         /\ noise_src' = IF raises THEN "fallback" ELSE "effect_noise"
         /\ noise_px' \in IF raises THEN FallbackNoise(noise) ELSE NoiseLevels
    /\ UNCHANGED <<args, distortion, noise, grid_strength, rotation, w, h, x, idx,
                   pasted, stopped, pix, ink, mesh, warp, grid_px, alpha, out_a,
                   result>>
    /\ UNCHANGED <<apiVars, otherVars>>

\* lines 161-168: range(0, w, grid_spacing) raises ValueError when grid_spacing is 0
Grid ==
    /\ pc = "grid"
    /\ buffers' = buffers + 1
    /\ reads' = reads \cup Read("grid", "grid_strength", grid_strength)
    /\ IF args.grid_spacing = 0
       THEN /\ Raise("grid", "ValueError")
            /\ UNCHANGED grid_px
       ELSE /\ Step("grid", "reduce")
            /\ grid_px' = IF OnBand(pix.x, pix.y, w, h, args.grid_spacing, grid_strength)
                          THEN LineOpacity(grid_strength) ELSE 0
            /\ UNCHANGED result
    /\ UNCHANGED <<args, distortion, noise, grid_strength, rotation, w, h, x, idx,
                   pasted, stopped, pix, ink, mesh, warp, noise_src, noise_px, alpha,
                   out_a>>
    /\ UNCHANGED <<apiVars, otherVars>>

\* lines 172-181
Reduce ==
    /\ Step("reduce", "protect")
    /\ buffers' = buffers + 5
    /\ reads' = reads \cup Read("reduce", "noise", noise)
                      \cup Read("reduce", "grid_strength", grid_strength)
    /\ alpha' = ChopsSubtract(255, AlphaMap(ChopsAdd(NoiseScaled(noise_px, noise), grid_px),
                                            noise, grid_strength))
    /\ UNCHANGED <<args, distortion, noise, grid_strength, rotation, w, h, x, idx,
                   pasted, stopped, pix, ink, mesh, warp, noise_src, noise_px,
                   grid_px, out_a, result>>
    /\ UNCHANGED <<apiVars, otherVars>>

\* lines 184-188
Protect ==
    /\ Step("protect", "floor")
    /\ IF args.protect_text
       THEN /\ alpha' = Lighter(alpha, Forced(ink))
            /\ buffers' = buffers + 3
       ELSE UNCHANGED <<alpha, buffers>>
    /\ UNCHANGED <<args, distortion, noise, grid_strength, rotation, w, h, x, idx,
                   pasted, stopped, pix, ink, mesh, warp, noise_src, noise_px,
                   grid_px, out_a, result, reads>>
    /\ UNCHANGED <<apiVars, otherVars>>

\* lines 191-193
Floor ==
    /\ Step("floor", "merge")
    /\ buffers' = buffers + 1
    /\ reads' = reads \cup Read("floor", "noise", noise)
                      \cup Read("floor", "grid_strength", grid_strength)
    /\ alpha' = FloorAlpha(alpha, noise, grid_strength)
    /\ UNCHANGED <<args, distortion, noise, grid_strength, rotation, w, h, x, idx,
                   pasted, stopped, pix, ink, mesh, warp, noise_src, noise_px,
                   grid_px, out_a, result>>
    /\ UNCHANGED <<apiVars, otherVars>>

\* lines 196-197
Merge ==
    /\ Step("merge", "overlay")
    /\ buffers' = buffers + 1
    /\ out_a' = alpha
    /\ UNCHANGED <<args, distortion, noise, grid_strength, rotation, w, h, x, idx,
                   pasted, stopped, pix, ink, mesh, warp, noise_src, noise_px,
                   grid_px, alpha, result, reads>>
    /\ UNCHANGED <<apiVars, otherVars>>

\* lines 200-211
Overlay ==
    /\ Step("overlay", "contrast")
    /\ buffers' = buffers + 2
    /\ reads' = reads \cup Read("overlay", "noise", noise)
    /\ \E src \in OverlayAlphas(w, h, noise) : out_a' = CompositeAlpha(out_a, src)
    /\ UNCHANGED <<args, distortion, noise, grid_strength, rotation, w, h, x, idx,
                   pasted, stopped, pix, ink, mesh, warp, noise_src, noise_px,
                   grid_px, alpha, result>>
    /\ UNCHANGED <<apiVars, otherVars>>

\* lines 214-215: the alpha band of out is merged back as it is
Contrast ==
    /\ Step("contrast", "return")
    /\ buffers' = buffers + 2
    /\ UNCHANGED <<args, distortion, noise, grid_strength, rotation, w, h, x, idx,
                   pasted, stopped, pix, ink, mesh, warp, noise_src, noise_px,
                   grid_px, alpha, out_a, result, reads>>
    /\ UNCHANGED <<apiVars, otherVars>>

\* line 217
Return ==
    /\ Step("return", "done")
    /\ result' = "buffer"
    /\ UNCHANGED <<args, distortion, noise, grid_strength, rotation, w, h, x, idx,
                   pasted, stopped, pix, ink, mesh, warp, noise_src, noise_px,
                   grid_px, alpha, out_a, buffers, reads>>
    /\ UNCHANGED <<apiVars, otherVars>>

Stages ==
    \/ Normalize \/ AllocBase \/ LoadFont \/ NewTextLayer \/ RenderChar \/ Compose
    \/ MeshCells \/ Warp \/ Blur \/ Noise \/ Grid \/ Reduce \/ Protect \/ Floor
    \/ Merge \/ Overlay \/ Contrast \/ Return

\* the stages of a call that returns, in order
AllStages ==
    <<"normalize", "base", "font", "text_layer", "glyph", "compose", "mesh", "warp",
      "blur", "noise", "grid", "reduce", "protect", "floor", "merge", "overlay",
      "contrast", "return">>

(***************************************************************************)
(* Transport wrapper, web_api.py lines 21-40.                              *)
(***************************************************************************)
\* the integers tried in a request body
IntVals == {5, 10}

NumberLists == UNION {[1 .. n -> IntVals] : n \in 0 .. MaxNumbers}

DigitChar == <<"0", "1", "2", "3", "4", "5", "6", "7", "8", "9">>

RECURSIVE Digits(_)
Digits(n) == IF n < 10 THEN <<DigitChar[n + 1]>>
             ELSE Digits(n \div 10) \o <<DigitChar[(n % 10) + 1]>>

\* str(n) of an int
Str(n) == IF n < 0 THEN <<"-">> \o Digits(-n) ELSE Digits(n)

RECURSIVE Join(_)
\* ''.join(map(str, numbers)), line 25
Join(numbers) ==
    IF numbers = <<>> THEN <<>> ELSE Str(Head(numbers)) \o Join(Tail(numbers))

\* len(data.numbers) != 5, line 23
WrongCountOnlyLonger(numbers) == Len(numbers) > 5

WrongCount(numbers) == Len(numbers) # 5

\* the arguments of the call of lines 26-36
ApiArgs(text) ==
    [text |-> text, width |-> <<>>, height |-> 50, font_path |-> "none",
     font_size |-> 30, mesh_steps |-> <<1, 11>>, grid_spacing |-> 16,
     distortion |-> 0, noise |-> Unit, grid_strength |-> 0, rotation |-> Unit,
     protect_text |-> TRUE]

\* lines 22-36: a request arrives; the error payload is returned, or captcha() is entered
generate_captcha ==
    /\ request = <<>>
    /\ \E numbers \in NumberLists :
         /\ request' = <<numbers>>
         /\ IF WrongCount(numbers)
            THEN /\ response' = "error"
                 /\ UNCHANGED <<coreCalls, coreVars>>
            ELSE /\ Enter(ApiArgs(Join(numbers)))
                 /\ coreCalls' = coreCalls + 1
                 /\ UNCHANGED response
    /\ UNCHANGED otherVars

\* lines 37-40: captcha() has returned and the image payload is sent; an exception of
\* captcha() leaves generate_captcha as it is
Respond ==
    /\ request # <<>>
    /\ response = NoValue
    /\ pc = "done"
    /\ response' = IF result = "buffer" THEN "image" ELSE "exception"
    /\ UNCHANGED <<request, coreCalls, coreVars, otherVars>>

Init == CoreIdle /\ ApiIdle /\ OtherIdle

Next == generate_captcha \/ Respond \/ Stages

Spec == Init /\ [][Next]_vars

(***************************************************************************)
(* Direct calls of captcha().                                              *)
(***************************************************************************)
Chars == {"5", "9"}

Texts == UNION {[1 .. n -> Chars] : n \in 0 .. MaxText}

Call(a) == Enter(a) /\ UNCHANGED <<apiVars, otherVars>>

\* calls that differ in what a validation would look at and in what it would not
CoreArgs ==
    {[DefaultArgs(t) EXCEPT !.height = hh, !.font_size = fs, !.grid_spacing = gs,
                            !.distortion = d, !.font_path = fp, !.mesh_steps = ms] :
        t \in {<<>>, <<"5">>}, hh \in {-1, 50}, fs \in {0, 30},
        gs \in {-16, 0, 16}, d \in {0, Unit}, fp \in {"none", "missing.ttf"},
        ms \in {<<1, 11>>, <<0, 0>>}}

CallCore == \E a \in CoreArgs : Call(a)

SpecCore == Init /\ [][CallCore \/ Stages]_vars

\* calls over the knob values
KnobArgs ==
    {[DefaultArgs(<<"5">>) EXCEPT !.distortion = d, !.noise = n, !.grid_strength = g,
                                  !.rotation = r] :
        d \in KnobVals, n \in KnobVals, g \in KnobVals, r \in KnobVals}

CallKnobs == \E a \in KnobArgs : Call(a)

SpecKnobs == Init /\ [][CallKnobs \/ Stages]_vars

\* calls over noise, grid_strength and protect_text
AlphaArgs ==
    {[DefaultArgs(<<"5">>) EXCEPT !.noise = n, !.grid_strength = g, !.protect_text = p] :
        n \in 0 .. Unit, g \in 0 .. Unit, p \in BOOLEAN}

CallAlpha == \E a \in AlphaArgs : Call(a)

SpecAlpha == Init /\ [][CallAlpha \/ Stages]_vars

\* calls over texts and widths
GlyphArgs ==
    {[DefaultArgs(t) EXCEPT !.width = wd, !.rotation = r] :
        t \in Texts, wd \in {<<>>, <<70>>, <<120>>}, r \in {0, Unit}}

CallGlyph == \E a \in GlyphArgs : Call(a)

SpecGlyph == Init /\ [][CallGlyph \/ Stages]_vars

\* calls over small canvases and mesh_steps
MeshArgs ==
    {[DefaultArgs(<<"5">>) EXCEPT !.width = <<wd>>, !.height = hh, !.mesh_steps = <<nx, ny>>] :
        wd \in 1 .. MaxSmall, hh \in 1 .. MaxSmall, nx \in 1 .. MaxNx, ny \in 1 .. MaxNy}

CallMesh == \E a \in MeshArgs : Call(a)

SpecMesh == Init /\ [][CallMesh \/ Stages]_vars

(***************************************************************************)
(* The quantities scaled by noise, evaluated for two noise arguments.      *)
(***************************************************************************)
\* noise_amp, line_count, dot_count and the two fill alphas of a call with noise
\* argument n on a canvas of ww x hh: lines 56, 149, 202, 206, 207, 210
Quantities(n, ww, hh) ==
    [noise_amp |-> NoiseAmp(clamp01(n)), line_count |-> LineCount(clamp01(n)),
     dot_count |-> DotCount(ww, hh, clamp01(n)), line_alpha |-> LineAlpha(clamp01(n)),
     dot_alpha |-> DotAlpha(clamp01(n))]

\* noise arguments, from below 0 to above 1
NoiseArgs == -2 .. (Unit + 2)

\* canvases: the default one, a wider one, a small one
Canvases == {<<220, 50>>, <<240, 50>>, <<MaxSmall, MaxSmall>>}

InitMono ==
    /\ CoreIdle /\ ApiIdle /\ rng = 0 /\ calls = <<>>
    /\ mono \in {[n1 |-> a, n2 |-> b, size |-> c, lo |-> <<>>, hi |-> <<>>] :
                    a \in NoiseArgs, b \in NoiseArgs, c \in Canvases}

EvalLow ==
    /\ mono.lo = <<>>
    /\ mono' = [mono EXCEPT !.lo = <<Quantities(mono.n1, mono.size[1], mono.size[2])>>]
    /\ UNCHANGED <<coreVars, apiVars, rng, calls>>

EvalHigh ==
    /\ mono.hi = <<>>
    /\ mono' = [mono EXCEPT !.hi = <<Quantities(mono.n2, mono.size[1], mono.size[2])>>]
    /\ UNCHANGED <<coreVars, apiVars, rng, calls>>

SpecMono == InitMono /\ [][EvalLow \/ EvalHigh]_vars

(***************************************************************************)
(* Concurrent calls.  generate_captcha is a plain def, which the server    *)
(* runs on its thread pool, and every draw of captcha() is a call of the   *)
(* module random (line 11): one generator for the process.                 *)
(***************************************************************************)
Threads == {1, 2}

\* the generator behind the module random, as a full-period congruential generator
RngNext(s) == (5 * s + 3) % 64

RngOut(s) == s

RECURSIVE RngAfter(_, _)
\* the state k draws after state s
RngAfter(s, k) == IF k = 0 THEN s ELSE RngAfter(RngNext(s), k - 1)

\* the sites of a call with a one-character text and a one-cell mesh that draw, in
\* order, with the number of draws of each: lines 87, 92, 116-123, 142, 204-206, 209
DrawSites ==
    <<<<"angle", 1>>, <<"jitter", 1>>, <<"offsets", 8>>, <<"rotation", 1>>>>
    \o [k \in 1 .. MaxLines |-> <<"line", 5>>]
    \o [k \in 1 .. MaxDots |-> <<"dot", 2>>]

\* the values of n draws in a row from state s
Drawn(s, n) == [k \in 1 .. n |-> RngOut(RngAfter(s, k - 1))]

InitConc ==
    /\ CoreIdle /\ ApiIdle /\ mono = <<>>
    /\ rng = 0
    /\ calls = [t \in Threads |-> [at |-> 1, draws |-> <<>>]]

\* call t runs its next site, which is `site`
DrawAt(t, site) ==
    /\ calls[t].at <= Len(DrawSites)
    /\ DrawSites[calls[t].at][1] = site
    /\ LET n == DrawSites[calls[t].at][2]
       IN  /\ calls' = [calls EXCEPT ![t] = [at |-> @.at + 1,
                                             draws |-> @.draws \o Drawn(rng, n)]]
           /\ rng' = RngAfter(rng, n)
    /\ UNCHANGED <<coreVars, apiVars, mono>>

\* line 87
DrawAngle == \E t \in Threads : DrawAt(t, "angle")

\* line 92
DrawJitter == \E t \in Threads : DrawAt(t, "jitter")

\* lines 116-123
DrawOffsets == \E t \in Threads : DrawAt(t, "offsets")

\* line 142
DrawRotation == \E t \in Threads : DrawAt(t, "rotation")

\* lines 204-206
DrawLine == \E t \in Threads : DrawAt(t, "line")

\* line 209
DrawDot == \E t \in Threads : DrawAt(t, "dot")

SpecConc ==
    InitConc /\ [][DrawAngle \/ DrawJitter \/ DrawOffsets \/ DrawRotation
                   \/ DrawLine \/ DrawDot]_vars

(***************************************************************************)
(* Properties.                                                             *)
(***************************************************************************)

\* C1: a request whose numbers list does not hold exactly 5 integers gets the error
\* payload, captcha() is never entered for it and no exception leaves the handler;
\* captcha() is entered only for a request with exactly 5 integers.
C1_WrongCountNeverReachesCore ==
    request # <<>> =>
        /\ Len(request[1]) # 5 =>
              /\ response = "error"
              /\ coreCalls = 0
              /\ pc = "idle"
              /\ buffers = 0
        /\ coreCalls > 0 => Len(request[1]) = 5
        /\ pc # "idle" => Len(request[1]) = 5

C1_Witness ==
    /\ request # <<>>
    /\ Len(request[1]) = 4
    /\ response = "error"
    /\ coreCalls = 0

\* what a validation of text, height and font_size would reject
Invalid(a) == a.text = <<>> \/ a.height <= 0 \/ a.font_size <= 0

\* C2: a call with empty text, non-positive height or non-positive font_size fails,
\* and fails before any image buffer is created.
C2_InvalidFailsBeforeAllocation ==
    (pc # "idle" /\ Invalid(args)) => (buffers = 0 /\ result # "buffer")

\* C3: a call whose text, height and font_size are valid runs every stage once, in
\* order, and returns a buffer, whatever the other arguments are.
C3_ValidCallReturns ==
    (pc = "done" /\ ~Invalid(args)) => (result = "buffer" /\ stages = AllStages)

\* C4: the random values a call observes are the same under every interleaving with
\* other calls: they are the values it draws when it runs alone.
C4_DrawsIndependent ==
    \A t \in Threads : calls[t].draws = Drawn(0, Len(calls[t].draws))

\* the floor of the claim, times 10 * Unit:
\* clamp(150 - 60 * (0.8 * noise + 0.2 * grid_strength), 100, 255) in exact arithmetic
RealFloor10(n, g) == Max(1000 * Unit, Min(2550 * Unit, MinAlphaExact10(n, g)))

\* C5 as stated: in the returned buffer every pixel's alpha is at least
\* clamp(150 - 60 * (0.8 * noise + 0.2 * grid_strength), 100, 255).
C5_AlphaAtLeastRealFloor ==
    result = "buffer" => 10 * Unit * out_a >= RealFloor10(noise, grid_strength)

\* C5 as amended: in the returned buffer every pixel's alpha is at least the integer
\* floor the program computes, the truncated double value of the expression clamped to
\* [100, 255], which is less than 1 below the floor of the claim on non-integer values
\* and 1 below it where the double falls short of an integer; the overlay and contrast
\* stages never lower alpha below it.
C5_AlphaAtLeastTruncatedFloor ==
    /\ pc \in {"merge", "overlay", "contrast", "return", "done"} /\ result # "ValueError"
          => alpha >= MinAlpha(noise, grid_strength)
    /\ pc \in {"overlay", "contrast", "return"} \/ result = "buffer" =>
          /\ out_a >= alpha
          /\ out_a >= MinAlpha(noise, grid_strength)
          /\ 10 * Unit * (out_a + 1) >= RealFloor10(noise, grid_strength)

\* a returned pixel that sits on the floor, below the value of the claim
C5_Witness ==
    /\ result = "buffer"
    /\ out_a = MinAlpha(noise, grid_strength)
    /\ 10 * Unit * out_a < RealFloor10(noise, grid_strength)
    /\ out_a > 100

\* C6: with protect_text, every pixel whose text_layer alpha exceeds 16 has alpha of at
\* least 230 in the returned buffer.
C6_InkStaysOpaque ==
    (result = "buffer" /\ args.protect_text /\ ink > 16) => out_a >= 230

\* a protected ink pixel that noise and grid alone would have left below 230
C6_Witness ==
    /\ result = "buffer"
    /\ args.protect_text
    /\ ink = 17
    /\ ChopsSubtract(255, AlphaMap(ChopsAdd(NoiseScaled(noise_px, noise), grid_px),
                                   noise, grid_strength)) < 230
    /\ out_a >= 230

\* C7: for noise arguments n1 <= n2 and everything else equal, noise_amp, line_count,
\* dot_count and the line and dot alphas of n2 are at least those of n1.
C7_MonotoneInNoise ==
    (mono.lo # <<>> /\ mono.hi # <<>> /\ mono.n1 <= mono.n2) =>
        /\ mono.lo[1].noise_amp <= mono.hi[1].noise_amp
        /\ mono.lo[1].line_count <= mono.hi[1].line_count
        /\ mono.lo[1].dot_count <= mono.hi[1].dot_count
        /\ mono.lo[1].line_alpha <= mono.hi[1].line_alpha
        /\ mono.lo[1].dot_alpha <= mono.hi[1].dot_alpha

C7_Witness ==
    /\ mono.lo # <<>> /\ mono.hi # <<>>
    /\ mono.n1 < mono.n2
    /\ mono.lo[1].noise_amp < mono.hi[1].noise_amp
    /\ mono.lo[1].dot_count < mono.hi[1].dot_count

\* C8: the knob value every stage uses is clamp(v, 0, 1) of the argument v, also for
\* arguments below 0 and above 1.
C8_StagesReadClampedKnobs ==
    /\ \A r \in reads : r[3] = Max(0, Min(Unit, args[r[2]]))
    /\ pc \notin {"idle", "normalize"} =>
          /\ distortion = Max(0, Min(Unit, args.distortion))
          /\ noise = Max(0, Min(Unit, args.noise))
          /\ grid_strength = Max(0, Min(Unit, args.grid_strength))
          /\ rotation = Max(0, Min(Unit, args.rotation))

\* a returned call whose knob arguments lay outside [0, 1]
C8_Witness ==
    /\ result = "buffer"
    /\ args.noise > Unit /\ args.rotation < 0 /\ args.distortion > Unit
    /\ args.grid_strength < 0
    /\ <<"overlay", "noise", Unit>> \in reads
    /\ <<"glyph", "rotation", 0>> \in reads
    /\ <<"blur", "distortion", Unit>> \in reads
    /\ <<"floor", "grid_strength", 0>> \in reads

\* C9: the cursor starts at 20 and advances by floor(font_size * 0.68) + jitter with
\* jitter in -1 .. 3 after each paste; a glyph is pasted only if cursor + rotated glyph
\* width <= width - 20; the first glyph that does not fit ends the rendering without an
\* error; the pasted characters are a prefix of text and none is pasted after the stop.
C9_PastedIsFittingPrefix ==
    /\ [](/\ Len(pasted) <= Len(args.text)
          /\ pasted = SubSeq(args.text, 1, Len(pasted))
          /\ stopped => (Len(pasted) < Len(args.text) /\ result # "ValueError"))
    /\ [][/\ Len(pasted') > Len(pasted) =>
               /\ pasted' = Append(pasted, args.text[Len(pasted) + 1])
               /\ ~stopped
               /\ Len(pasted) = 0 => x = 20
               /\ \E gw \in RotatedWidths(args.font_size, h, rotation) : x + gw <= w - 20
               /\ x' - x - (args.font_size * 68) \div 100 \in -1 .. 3
          /\ stopped => pasted' = pasted
          /\ (stopped' /\ ~stopped) => pc' = "compose"]_vars

\* a rendering cut short after its first glyphs
C9_Witness ==
    /\ result = "buffer"
    /\ stopped
    /\ Len(pasted) = 2
    /\ Len(args.text) = 3

\* C10: the boxes of the nx * ny mesh cells tile the canvas: every pixel of
\* [0, w) x [0, h) lies in the box of exactly one cell.
C10_CellsTileCanvas ==
    mesh # <<>> =>
        /\ Len(mesh) = Steps(args.mesh_steps[1]) * Steps(args.mesh_steps[2])
        /\ \A px \in 0 .. (w - 1), py \in 0 .. (h - 1) :
              Cardinality({c \in DOMAIN mesh : InBox(mesh[c], px, py)}) = 1

====
